---- MODULE Spec2Model ----
\* Model of the faas-provider log streaming handler (logs/handler.go):
\* parseRequest / getValue and the handler returned by NewLogHandlerFunc,
\* together with the collaborators it talks to (the Requestor producing the
\* message channel, the http.ResponseWriter, the client closing the connection).
EXTENDS Integers, Sequences, FiniteSets, TLC

\* ---------------------------------------------------------------------------
\* Bounds
\* ---------------------------------------------------------------------------
\* Longest message stream a Requestor produces.
MaxMsgs == 3
\* Largest buffer capacity of the channel returned by Requestor.Query
\* (0 is an unbuffered channel).
MaxChanCap == 1
\* Most values one key of a query string carries.
MaxValues == 2

\* ---------------------------------------------------------------------------
\* net/http status codes used by the handler
\* ---------------------------------------------------------------------------
StatusOK == 200
StatusNotFound == 404
StatusUnprocessableEntity == 422
StatusInternalServerError == 500

\* ---------------------------------------------------------------------------
\* Request parsing
\* ---------------------------------------------------------------------------
QueryKeys == {"name", "instance", "limit", "follow", "invert", "since", "pattern"}

\* The unset value of the pointer fields Since and Pattern.
Nil == "<nil>"
\* The zero time.Time, which time.Parse returns together with an error.
ZeroTime == "0001-01-01T00:00:00Z"

\* The zero value of Request.
ZeroRequest ==
    [Name |-> "", Instance |-> "", Since |-> Nil, Limit |-> 0,
     Follow |-> FALSE, Pattern |-> Nil, Invert |-> FALSE]

\* A getValue that returns the first value of the key.
getValueFirst(queryValues, name) ==
    LET values == queryValues[name]
    IN IF Len(values) = 0 THEN "" ELSE values[1]

\* getValue: the last value of the key, "" when the key has no value.
getValue(queryValues, name) ==
    LET values == queryValues[name]
    IN IF Len(values) = 0 THEN "" ELSE values[Len(values)]

\* strconv.Atoi on the decimal strings of the model; any other string is an error.
AtoiTable == ("-1" :> -1) @@ ("0" :> 0) @@ ("1" :> 1) @@ ("2" :> 2) @@ ("3" :> 3)
\* An Atoi that never fails.
AtoiOkAlways(s) == TRUE
AtoiOk(s) == s \in DOMAIN AtoiTable
Atoi(s) == IF s \in DOMAIN AtoiTable THEN AtoiTable[s] ELSE 0

\* strconv.ParseBool: the accepted spellings; anything else is an error and
\* the returned value is false.
ParseBool(s) == s \in {"1", "t", "T", "TRUE", "true", "True"}

\* time.Parse(time.RFC3339, s) on the timestamps of the model.
ValidTimes == {"2019-02-16T09:10:06Z"}
TimeParseOk(s) == s \in ValidTimes
TimeParse(s) == IF TimeParseOk(s) THEN s ELSE ZeroTime

\* A pattern set by truthiness: only when its last value is not empty.
setPatternIfNonEmpty(r, patterns) ==
    IF Len(patterns) > 0 /\ patterns[Len(patterns)] # ""
    THEN [r EXCEPT !.Pattern = patterns[Len(patterns)]]
    ELSE r

\* Pattern is set to the last value when the key has at least one value.
setPattern(r, patterns) ==
    IF Len(patterns) > 0 THEN [r EXCEPT !.Pattern = patterns[Len(patterns)]] ELSE r

\* The GET branch of parseRequest, one field after the other as the code does.
parseGet(query) ==
    LET r1 == [ZeroRequest EXCEPT !.Name = getValue(query, "name"),
                                  !.Instance = getValue(query, "instance")]
        limitStr == getValue(query, "limit")
        sinceStr == getValue(query, "since")
        patterns == query["pattern"]
    IN IF limitStr # "" /\ ~AtoiOk(limitStr)
       THEN [logRequest |-> r1, err |-> TRUE]
       ELSE
         LET r2 == [r1 EXCEPT !.Limit = IF limitStr # "" THEN Atoi(limitStr) ELSE 0,
                              !.Follow = ParseBool(getValue(query, "follow")),
                              !.Invert = ParseBool(getValue(query, "invert"))]
         IN IF sinceStr # "" /\ ~TimeParseOk(sinceStr)
            THEN [logRequest |-> [r2 EXCEPT !.Since = TimeParse(sinceStr)], err |-> TRUE]
            ELSE
              LET r3 == IF sinceStr # "" THEN [r2 EXCEPT !.Since = TimeParse(sinceStr)] ELSE r2
                  r4 == setPattern(r3, patterns)
              IN [logRequest |-> r4, err |-> FALSE]

\* A parseRequest that reads the query string whatever the method is.
parseRequestAnyMethodAsGet(r) ==
    CASE r.Method = "POST" -> [logRequest |-> r.Body.decoded, err |-> ~r.Body.valid]
      [] OTHER -> parseGet(r.Query)

\* parseRequest: GET reads the query string, POST decodes the JSON body, any
\* other method leaves the zero Request and no error.
parseRequest(r) ==
    CASE r.Method = "GET" -> parseGet(r.Query)
      [] r.Method = "POST" -> [logRequest |-> r.Body.decoded, err |-> ~r.Body.valid]
      [] OTHER -> [logRequest |-> ZeroRequest, err |-> FALSE]

\* ---------------------------------------------------------------------------
\* Requests the handler is driven with
\* ---------------------------------------------------------------------------
EmptyQuery == [k \in QueryKeys |-> <<>>]
NoBody == [valid |-> FALSE, decoded |-> ZeroRequest]

GetRequest(limits, follows) ==
    [Method |-> "GET",
     Query |-> [EmptyQuery EXCEPT !["name"] = <<"fn">>, !["limit"] = limits, !["follow"] = follows],
     Body |-> NoBody]

HandlerRequests ==
    { GetRequest(l, f) : l \in {<<>>, <<"-1">>, <<"1">>, <<"2">>, <<"x">>},
                         f \in {<<>>, <<"true">>} }
    \cup { [Method |-> "POST", Query |-> EmptyQuery,
            Body |-> [valid |-> TRUE, decoded |-> [ZeroRequest EXCEPT !.Name = "fn", !.Limit = 1]]],
           [Method |-> "POST", Query |-> EmptyQuery,
            Body |-> [valid |-> FALSE, decoded |-> [ZeroRequest EXCEPT !.Name = "fn"]]],
           [Method |-> "PUT", Query |-> [EmptyQuery EXCEPT !["limit"] = <<"x">>], Body |-> NoBody] }

\* ---------------------------------------------------------------------------
\* Requests the parser is driven with
\* ---------------------------------------------------------------------------
\* The values a key takes in a query string.
Tokens(k) ==
    CASE k = "name" -> {"a", "b"}
      [] k = "instance" -> {"i", "j"}
      [] k = "limit" -> {"2", "x"}
      [] k = "follow" -> {"true", "nope"}
      [] k = "invert" -> {"true", "nope"}
      [] k = "since" -> {"2019-02-16T09:10:06Z", "bad"}
      [] k = "pattern" -> {"", "p"}

SeqsUpTo(S, n) == UNION {[1..i -> S] : i \in 0..n}

\* A query string with one valid value for every key.
FullQuery ==
    [k \in QueryKeys |->
        CASE k = "name" -> <<"fn">>
          [] k = "instance" -> <<"i1">>
          [] k = "limit" -> <<"2">>
          [] k = "follow" -> <<"true">>
          [] k = "invert" -> <<"true">>
          [] k = "since" -> <<"2019-02-16T09:10:06Z">>
          [] k = "pattern" -> <<"p">>]

\* A query string with up to two keys given any sequence of at most n values.
VariedQueries(b, n) ==
    UNION { UNION { { [b EXCEPT ![k1] = v1, ![k2] = v2] :
                        v1 \in SeqsUpTo(Tokens(k1), n),
                        v2 \in SeqsUpTo(Tokens(k2), n) }
                    : k2 \in QueryKeys }
            : k1 \in QueryKeys }

\* The empty and the full query string, varied.
ParseQueries(n) == VariedQueries(EmptyQuery, n) \cup VariedQueries(FullQuery, n)

ParseBodies ==
    { NoBody,
      [valid |-> TRUE, decoded |-> [ZeroRequest EXCEPT !.Name = "fn", !.Limit = 1]],
      [valid |-> FALSE, decoded |-> [ZeroRequest EXCEPT !.Name = "fn"]] }

ParseRequests(n) ==
    { [Method |-> "GET", Query |-> q, Body |-> NoBody] : q \in ParseQueries(n) }
    \cup { [Method |-> "POST", Query |-> EmptyQuery, Body |-> b] : b \in ParseBodies \ {NoBody} }
    \cup { [Method |-> m, Query |-> q, Body |-> b] :
              m \in {"PUT", "DELETE"}, q \in ParseQueries(n), b \in ParseBodies }

\* ---------------------------------------------------------------------------
\* State
\* ---------------------------------------------------------------------------
VARIABLES
    req,            \* the inbound *http.Request (method, query string, body)
    hasCN,          \* w implements http.CloseNotifier
    hasFlusher,     \* w implements http.Flusher
    stream,         \* the messages the Requestor's producer will send, in order
    accept,         \* the messages for which Requestor.Filter returns true
    chanCap,        \* capacity of the channel returned by Requestor.Query
    pc,             \* position of the handler goroutine
    outcome,        \* the return statement the handler left through
    logRequest,     \* the parsed Request
    ctx,            \* the context derived by context.WithCancel
    messagesNil,    \* the handler's `messages` variable is nil
    chanBuf,        \* messages buffered in the channel
    chanClosed,     \* the channel has been closed by the producer
    prodPc,         \* position of the Requestor's producer goroutine
    prodSent,       \* number of messages the producer has sent
    closeNotified,  \* cn.CloseNotify() has fired
    status,         \* status code written to the response, 0 while none is
    headers,        \* response headers set by the handler
    hdrFlushed,     \* the response header has been flushed to the client
    body,           \* lines written to the response body
    flushedLen,     \* number of body lines flushed to the client
    encErr,         \* the json.Encoder holds a write error
    queryRes,       \* what Requestor.Query returned
    encodeRes,      \* what jsonEncoder.Encode(msg) returned for the last kept message
    msg,            \* the message received by the select
    yielded,        \* messages received from the channel so far
    sent,           \* the handler's sent counter
    queryCalls,     \* calls of Requestor.Query
    filterCalls,    \* calls of Requestor.Filter
    parsed          \* parseRequest has been called

vars == <<req, hasCN, hasFlusher, stream, accept, chanCap, pc, outcome, logRequest,
          ctx, messagesNil, chanBuf, chanClosed, prodPc, prodSent, closeNotified,
          status, headers, hdrFlushed, body, flushedLen, encErr, msg, yielded,
          sent, queryCalls, filterCalls, parsed, queryRes, encodeRes>>

inputVars == <<req, hasCN, hasFlusher, stream, accept, chanCap>>
respVars == <<status, headers, hdrFlushed, body, flushedLen, encErr>>
chanVars == <<chanBuf, chanClosed, prodPc, prodSent>>
loopVars == <<msg, yielded, sent>>
callVars == <<queryCalls, filterCalls, parsed>>
resVars == <<queryRes, encodeRes>>

NoMsg == 0
Messages == 1..MaxMsgs

\* Lines of the response body.
MsgLine(m) == [kind |-> "msg", id |-> m]
FallbackLine == [kind |-> "fallback", id |-> 0]
ErrorLine(code) == [kind |-> "error", id |-> code]

Init ==
    /\ req \in HandlerRequests
    /\ hasCN \in BOOLEAN
    /\ hasFlusher \in BOOLEAN
    /\ \E n \in 0..MaxMsgs : stream = [i \in 1..n |-> i]
    /\ accept \in SUBSET (1..Len(stream))
    /\ chanCap \in 0..MaxChanCap
    /\ pc = "start"
    /\ outcome = "none"
    /\ logRequest = ZeroRequest
    /\ ctx = "none"
    /\ messagesNil = TRUE
    /\ chanBuf = <<>>
    /\ chanClosed = FALSE
    /\ prodPc = "idle"
    /\ prodSent = 0
    /\ closeNotified = FALSE
    /\ status = 0
    /\ headers = {}
    /\ hdrFlushed = FALSE
    /\ body = <<>>
    /\ flushedLen = 0
    /\ encErr = FALSE
    /\ msg = NoMsg
    /\ yielded = <<>>
    /\ sent = 0
    /\ queryCalls = 0
    /\ filterCalls = 0
    /\ parsed = FALSE
    /\ queryRes = "none"
    /\ encodeRes = "none"

\* ---------------------------------------------------------------------------
\* The response writer
\* ---------------------------------------------------------------------------
\* ResponseWriter.WriteHeader: the first status code written is the one sent.
WriteHeader(st, code) == IF st = 0 THEN code ELSE st

\* http.NotFound: a 404 reply with a plain-text body.
NotFound ==
    /\ status' = WriteHeader(status, StatusNotFound)
    /\ body' = Append(body, ErrorLine(StatusNotFound))
    /\ UNCHANGED <<headers, hdrFlushed, flushedLen, encErr>>

\* httputils.WriteError: writes the status code, then the message as the body.
WriteError(st, code) ==
    /\ status' = WriteHeader(st, code)
    /\ body' = Append(body, ErrorLine(code))
    /\ UNCHANGED <<headers, hdrFlushed, flushedLen, encErr>>

\* A return that forgets to cancel the derived context.
deferredCancelForgotten(c) == c

\* The deferred cancelQuery(), run on every return after the context was derived.
deferredCancel(c) == IF c = "none" THEN c ELSE "canceled"

\* A return statement of the handler, with the deferred calls it runs.
Return(o) ==
    /\ pc' = "done"
    /\ outcome' = o
    /\ ctx' = deferredCancel(ctx)

\* ---------------------------------------------------------------------------
\* The handler
\* ---------------------------------------------------------------------------
\* A capability check that forgets the Flusher.
streamingSupportedOnlyCN(cn, fl) == cn

\* The two capability assertions on the response writer.
streamingSupported(cn, fl) == cn /\ fl

CheckCapabilities ==
    /\ pc = "start"
    /\ IF ~streamingSupported(hasCN, hasFlusher)
       THEN /\ NotFound
            /\ Return("Unsupported")
       ELSE /\ pc' = "parse"
            /\ UNCHANGED <<outcome, ctx, respVars>>
    /\ UNCHANGED <<inputVars, logRequest, messagesNil, chanVars, closeNotified,
                   loopVars, callVars, resVars>>

\* A handler that ignores the error of parseRequest.
afterParseIgnoreError(err) == "query"

\* Where the handler goes after parseRequest.
afterParse(err) == IF err THEN "done" ELSE "query"

Parse ==
    /\ pc = "parse"
    /\ parsed' = TRUE
    /\ LET res == parseRequest(req)
       IN /\ logRequest' = res.logRequest
          /\ IF afterParse(res.err) = "done"
             THEN /\ WriteError(WriteHeader(status, StatusUnprocessableEntity),
                                StatusUnprocessableEntity)
                  /\ Return("ParseError")
             ELSE /\ pc' = afterParse(res.err)
                  /\ UNCHANGED <<outcome, ctx, respVars>>
    /\ UNCHANGED <<inputVars, messagesNil, chanVars, closeNotified, loopVars,
                   queryCalls, filterCalls, resVars>>

\* A handler that ignores the error of Requestor.Query.
afterQueryIgnoreError(err) == "headers"

\* A handler that calls Requestor.Query again when it failed.
afterQueryRetry(err) == IF err THEN "query" ELSE "headers"

\* Where the handler goes after Requestor.Query.
afterQuery(err) == IF err THEN "done" ELSE "headers"

\* context.WithCancel, defer cancelQuery(), requestor.Query and its error check.
\* Query returns an error, a channel fed by a producer goroutine, or a nil channel.
Query ==
    /\ pc = "query"
    /\ queryCalls' = queryCalls + 1
    /\ \E res \in {"error", "channel", "nil"} :
         /\ queryRes' = res
         /\ IF afterQuery(res = "error") = "done"
            THEN /\ WriteError(status, StatusInternalServerError)
                 /\ pc' = "done"
                 /\ outcome' = "QueryError"
                 /\ ctx' = deferredCancel("active")
                 /\ UNCHANGED <<messagesNil, chanVars>>
            ELSE /\ pc' = afterQuery(res = "error")
                 /\ ctx' = "active"
                 /\ messagesNil' = (res # "channel")
                 /\ prodPc' = IF res = "channel" THEN "running" ELSE prodPc
                 /\ UNCHANGED <<outcome, respVars, chanBuf, chanClosed, prodSent>>
    /\ UNCHANGED <<inputVars, logRequest, closeNotified, loopVars, filterCalls, parsed,
                   encodeRes>>

\* The streaming headers sent without the flush that follows them.
SendHeadersNoFlush ==
    /\ pc = "headers"
    /\ headers' = headers \cup {"Transfer-Encoding: chunked", "Content-Type: application/x-ndjson"}
    /\ status' = WriteHeader(status, StatusOK)
    /\ sent' = 0
    /\ IF messagesNil
       THEN Return("Completed")
       ELSE /\ pc' = "select"
            /\ UNCHANGED <<outcome, ctx>>
    /\ UNCHANGED <<inputVars, logRequest, messagesNil, chanVars, closeNotified,
                   hdrFlushed, flushedLen, body, encErr, msg, yielded, callVars, resVars>>

\* The streaming headers, the first flush, sent := 0 and the loop condition.
SendHeaders ==
    /\ pc = "headers"
    /\ headers' = headers \cup {"Transfer-Encoding: chunked", "Content-Type: application/x-ndjson"}
    /\ status' = WriteHeader(status, StatusOK)
    /\ hdrFlushed' = TRUE
    /\ flushedLen' = Len(body)
    /\ sent' = 0
    /\ IF messagesNil
       THEN Return("Completed")
       ELSE /\ pc' = "select"
            /\ UNCHANGED <<outcome, ctx>>
    /\ UNCHANGED <<inputVars, logRequest, messagesNil, chanVars, closeNotified,
                   body, encErr, msg, yielded, callVars, resVars>>

\* select: case <-cn.CloseNotify()
SelectDisconnect ==
    /\ pc = "select"
    /\ closeNotified
    /\ Return("Disconnected")
    /\ UNCHANGED <<inputVars, logRequest, messagesNil, chanVars, closeNotified,
                   respVars, loopVars, callVars, resVars>>

\* The producer is blocked in a send on an unbuffered channel.
SenderReady ==
    /\ chanCap = 0
    /\ prodPc = "running"
    /\ prodSent < Len(stream)

\* select: case msg, ok := <-messages with ok = true.  When the disconnect
\* case is ready too, the select takes either.
SelectMessage ==
    /\ pc = "select"
    /\ \/ /\ chanBuf # <<>>
          /\ msg' = Head(chanBuf)
          /\ chanBuf' = Tail(chanBuf)
          /\ UNCHANGED prodSent
       \/ /\ chanBuf = <<>>
          /\ SenderReady
          /\ msg' = stream[prodSent + 1]
          /\ prodSent' = prodSent + 1
          /\ UNCHANGED chanBuf
    /\ yielded' = Append(yielded, msg')
    /\ pc' = "filter"
    /\ UNCHANGED <<inputVars, outcome, logRequest, ctx, messagesNil, chanClosed, prodPc,
                   closeNotified, respVars, sent, callVars, resVars>>

\* A loop that neither returns nor drops the channel when it is closed.
SelectClosedSpin ==
    /\ pc = "select"
    /\ chanBuf = <<>>
    /\ chanClosed
    /\ UNCHANGED vars

\* select: case msg, ok := <-messages with ok = false
SelectClosed ==
    /\ pc = "select"
    /\ chanBuf = <<>>
    /\ chanClosed
    /\ messagesNil' = TRUE
    /\ Return("Completed")
    /\ UNCHANGED <<inputVars, logRequest, chanVars, closeNotified, respVars,
                   loopVars, callVars, resVars>>

\* A loop that writes the messages the filter rejects.
afterFilterKeepAll(keep) == "encode"

\* Where the handler goes after Requestor.Filter.
afterFilter(keep) == IF ~keep THEN "select" ELSE "encode"

Filter ==
    /\ pc = "filter"
    /\ filterCalls' = filterCalls + 1
    /\ pc' = afterFilter(msg \in accept)
    /\ UNCHANGED <<inputVars, outcome, logRequest, ctx, messagesNil, chanVars,
                   closeNotified, respVars, loopVars, queryCalls, parsed, resVars>>

\* A writer that puts the new line in front of the body.
writeLinePrepend(b, line) == <<line>> \o b

\* Where a line written by the handler goes in the response body.
writeLine(b, line) == Append(b, line)

\* A loop that ignores the error of Encode.
afterEncodeIgnoreError(res) == "flush"

\* Where the handler goes after jsonEncoder.Encode(msg).
afterEncode(res) == IF res # "ok" THEN "done" ELSE "flush"

\* jsonEncoder.Encode(msg) and, when it fails, the fallback line and the return.
\* Encode fails in Marshal (nothing is written, the encoder stays usable) or in
\* the Write to the response (the encoder keeps the error, and every later
\* Encode returns it without writing).  The fallback line, when it is
\* attempted, meets a Write that succeeds or fails.
Encode ==
    /\ pc = "encode"
    /\ \E res \in {"ok", "marshal error", "write error"} :
         /\ encodeRes' = res
         /\ IF afterEncode(res) = "flush"
            THEN /\ body' = writeLine(body, MsgLine(msg))
                 /\ pc' = "flush"
                 /\ UNCHANGED <<outcome, ctx, encErr>>
            ELSE /\ \E fallbackRes \in {"ok", "write error"} :
                      /\ (res = "write error") => (fallbackRes = "write error")
                      /\ body' = IF fallbackRes = "ok"
                                 THEN writeLine(body, FallbackLine)
                                 ELSE body
                      /\ encErr' = (fallbackRes = "write error")
                 /\ Return("Faulted")
    /\ UNCHANGED <<inputVars, logRequest, messagesNil, chanVars, closeNotified,
                   status, headers, hdrFlushed, flushedLen, loopVars, callVars, queryRes>>

\* A loop that goes on to the limit check without flushing.
FlushSkipped ==
    /\ pc = "flush"
    /\ pc' = "limit"
    /\ UNCHANGED <<inputVars, outcome, logRequest, ctx, messagesNil, chanVars,
                   closeNotified, respVars, loopVars, callVars, resVars>>

\* flusher.Flush() after a written message.
Flush ==
    /\ pc = "flush"
    /\ hdrFlushed' = TRUE
    /\ flushedLen' = Len(body)
    /\ pc' = "limit"
    /\ UNCHANGED <<inputVars, outcome, logRequest, ctx, messagesNil, chanVars,
                   closeNotified, status, headers, body, encErr, loopVars, callVars,
                   resVars>>

\* A limit check that is off by one.
limitReachedOffByOne(s, limit) == s > limit

\* A counter that is compared with twice the limit.
limitReachedAtDouble(s, limit) == s >= 2 * limit

\* sent >= logRequest.Limit
limitReached(s, limit) == s >= limit

\* A limit test that takes zero for a limit.
limitSetFromZero(limit) == limit >= 0

\* logRequest.Limit > 0
limitSet(limit) == limit > 0

\* The limit bookkeeping at the end of the loop body.
LimitCheck ==
    /\ pc = "limit"
    /\ IF limitSet(logRequest.Limit)
       THEN /\ sent' = sent + 1
            /\ IF limitReached(sent', logRequest.Limit)
               THEN Return("LimitReached")
               ELSE /\ pc' = "select"
                    /\ UNCHANGED <<outcome, ctx>>
       ELSE /\ pc' = "select"
            /\ UNCHANGED <<outcome, ctx, sent>>
    /\ UNCHANGED <<inputVars, logRequest, messagesNil, chanVars, closeNotified,
                   respVars, msg, yielded, callVars, resVars>>

\* ---------------------------------------------------------------------------
\* The environment: the client and the Requestor's producer
\* ---------------------------------------------------------------------------
\* The client closes the connection while the handler runs.
ClientDisconnect ==
    /\ pc # "done"
    /\ ~closeNotified
    /\ closeNotified' = TRUE
    /\ UNCHANGED <<inputVars, pc, outcome, logRequest, ctx, messagesNil, chanVars,
                   respVars, loopVars, callVars, resVars>>

\* The producer puts its next message into the channel's buffer.
ProducerSend ==
    /\ prodPc = "running"
    /\ prodSent < Len(stream)
    /\ Len(chanBuf) < chanCap
    /\ chanBuf' = Append(chanBuf, stream[prodSent + 1])
    /\ prodSent' = prodSent + 1
    /\ UNCHANGED <<inputVars, pc, outcome, logRequest, ctx, messagesNil, chanClosed,
                   prodPc, closeNotified, respVars, loopVars, callVars, resVars>>

\* The producer closes the channel: at the end of the backlog when the request
\* does not follow, or once the context is canceled.
ProducerClose ==
    /\ prodPc = "running"
    /\ \/ prodSent = Len(stream) /\ ~logRequest.Follow
       \/ ctx = "canceled"
    /\ chanClosed' = TRUE
    /\ prodPc' = "stopped"
    /\ UNCHANGED <<inputVars, pc, outcome, logRequest, ctx, messagesNil, chanBuf,
                   prodSent, closeNotified, respVars, loopVars, callVars, resVars>>

Next ==
    \/ CheckCapabilities
    \/ Parse
    \/ Query
    \/ SendHeaders
    \/ SelectDisconnect
    \/ SelectMessage
    \/ SelectClosed
    \/ Filter
    \/ Encode
    \/ Flush
    \/ LimitCheck
    \/ ClientDisconnect
    \/ ProducerSend
    \/ ProducerClose

Spec == Init /\ [][Next]_vars

\* The handler from its entry to the call of Requestor.Query, driven with the
\* requests of the parser.
ParseInit ==
    /\ req \in ParseRequests(MaxValues)
    /\ hasCN = TRUE
    /\ hasFlusher = TRUE
    /\ stream = <<>>
    /\ accept = {}
    /\ chanCap = 0
    /\ pc = "start"
    /\ outcome = "none"
    /\ logRequest = ZeroRequest
    /\ ctx = "none"
    /\ messagesNil = TRUE
    /\ chanBuf = <<>>
    /\ chanClosed = FALSE
    /\ prodPc = "idle"
    /\ prodSent = 0
    /\ closeNotified = FALSE
    /\ status = 0
    /\ headers = {}
    /\ hdrFlushed = FALSE
    /\ body = <<>>
    /\ flushedLen = 0
    /\ encErr = FALSE
    /\ msg = NoMsg
    /\ yielded = <<>>
    /\ sent = 0
    /\ queryCalls = 0
    /\ filterCalls = 0
    /\ parsed = FALSE
    /\ queryRes = "none"
    /\ encodeRes = "none"

ParseNext ==
    \/ CheckCapabilities
    \/ Parse
    \/ Query

ParseSpec == ParseInit /\ [][ParseNext]_vars

\* The steps of the handler goroutine.
HandlerStep ==
    \/ CheckCapabilities
    \/ Parse
    \/ Query
    \/ SendHeaders
    \/ SelectDisconnect
    \/ SelectMessage
    \/ SelectClosed
    \/ Filter
    \/ Encode
    \/ Flush
    \/ LimitCheck

\* The scheduler runs the handler goroutine whenever it can take a step (at
\* the select: whenever one of its cases is ready), and a producer that
\* observes the cancellation of its context closes its channel.
FairSpec == Spec /\ WF_vars(HandlerStep) /\ WF_vars(ProducerClose)

TypeOK ==
    /\ pc \in {"start", "parse", "query", "headers", "select", "filter", "encode",
               "flush", "limit", "done"}
    /\ outcome \in {"none", "Unsupported", "ParseError", "QueryError", "Completed",
                    "Disconnected", "Faulted", "LimitReached"}
    /\ ctx \in {"none", "active", "canceled"}
    /\ status \in {0, StatusOK, StatusNotFound, StatusUnprocessableEntity,
                   StatusInternalServerError}
    /\ queryRes \in {"none", "error", "channel", "nil"}
    /\ encodeRes \in {"none", "ok", "marshal error", "write error"}
    /\ Len(chanBuf) <= chanCap

\* ---------------------------------------------------------------------------
\* Properties
\* ---------------------------------------------------------------------------
\* The message lines of a body, as the messages they carry.
IsMsgLine(l) == l.kind = "msg"
IsFallbackLine(l) == l.kind = "fallback"
WrittenMsgs ==
    LET lines == SelectSeq(body, IsMsgLine)
    IN [i \in 1..Len(lines) |-> lines[i].id]
FallbackCount == Len(SelectSeq(body, IsFallbackLine))

\* The messages of a sequence that Requestor.Filter accepts.
Accepted(m) == m \in accept
AcceptedIn(s) == SelectSeq(s, Accepted)

StreamingHeaders == {"Transfer-Encoding: chunked", "Content-Type: application/x-ndjson"}
EncodeFailed == encodeRes \in {"marshal error", "write error"}

\* The request limits the stream to k of its N messages, 0 < k < N, and the
\* stream holds at least k messages the filter accepts.
LimitBelowStream ==
    /\ queryRes = "channel"
    /\ logRequest.Limit > 0
    /\ logRequest.Limit < Len(stream)
    /\ Len(AcceptedIn(stream)) >= logRequest.Limit

\* C1: with limit = k, 0 < k < N, on a stream of N messages of which the
\* filter accepts at least k, the handler never writes more than k message
\* lines, takes nothing more from the stream once it wrote the k-th, and
\* unless the client disconnected or a write faulted it returns only through
\* the limit with exactly k message lines written; Follow plays no part.
C1_LimitWritesExactlyK ==
    LimitBelowStream =>
        /\ Len(WrittenMsgs) <= logRequest.Limit
        /\ (Len(WrittenMsgs) = logRequest.Limit) => pc \in {"flush", "limit", "done"}
        /\ (pc = "done" /\ outcome \notin {"Disconnected", "Faulted"}) =>
               /\ outcome = "LimitReached"
               /\ Len(WrittenMsgs) = logRequest.Limit

\* The handler stopped on the limit of a following request with messages left over.
C1_Witness ==
    /\ LimitBelowStream
    /\ logRequest.Follow
    /\ pc = "done"
    /\ outcome = "LimitReached"
    /\ Len(WrittenMsgs) = logRequest.Limit
    /\ Len(yielded) < Len(stream)

\* C2: once CloseNotify has fired, the handler waiting in the select stops
\* there: its next step is the return, never the receipt of a message that is
\* available on the stream at that moment.
C2_DisconnectStopsImmediately ==
    [][(closeNotified /\ pc = "select" /\ pc' # "select") => pc' = "done"]_vars

\* C3: a message the filter rejects is never written and never counted: the
\* step that rejects it goes back to the select with the body and the
\* sent-count as they were, every written message is an accepted one, and the
\* sent-count never exceeds the number of accepted messages received.
C3_RejectedNeitherWrittenNorCounted ==
    /\ [](\A i \in 1..Len(WrittenMsgs) : WrittenMsgs[i] \in accept)
    /\ [](sent <= Len(AcceptedIn(yielded)))
    /\ [][(pc = "filter" /\ msg \notin accept /\ filterCalls' # filterCalls) =>
              (pc' = "select" /\ body' = body /\ sent' = sent)]_vars

\* A rejected message was skipped and the message after it was written.
C3_Witness ==
    /\ Len(yielded) >= 2
    /\ yielded[1] \notin accept
    /\ WrittenMsgs = <<yielded[2]>>
    /\ logRequest.Limit > 0
    /\ sent = 1

\* C4: the context handed to Requestor.Query is canceled when the handler has
\* returned through the query failure, the end of the stream, the limit, the
\* client's disconnect or a serialization fault.
C4_ContextCanceledOnReturn ==
    (pc = "done" /\ outcome \in {"QueryError", "Completed", "LimitReached",
                                 "Disconnected", "Faulted"})
        => ctx = "canceled"

\* The handler returned on a disconnect with the producer still running.
C4_Witness ==
    /\ pc = "done"
    /\ outcome = "Disconnected"
    /\ ctx = "canceled"
    /\ prodPc = "running"

\* C5 as stated: after a failed Encode of a kept message the body holds
\* exactly one fallback line, the handler has returned, and the failed
\* message is neither written nor counted.
C5_ExactlyOneFallbackLine ==
    EncodeFailed =>
        /\ FallbackCount = 1
        /\ pc = "done"
        /\ \A i \in 1..Len(WrittenMsgs) : WrittenMsgs[i] # msg
        /\ sent <= Len(WrittenMsgs)

\* C5 amended: after a failed Encode of a kept message the handler has
\* returned, having attempted one fallback line: the body holds at most one,
\* as its last line, and exactly one when the failure was a serialization
\* failure and the fallback's write succeeded; none when the write to the
\* response failed.  The failed message is neither written nor counted, and
\* nothing is written afterwards.
C5_AtMostOneFallbackLine ==
    /\ [](EncodeFailed =>
            /\ pc = "done"
            /\ outcome = "Faulted"
            /\ FallbackCount <= 1
            /\ (FallbackCount = 1) => body[Len(body)] = FallbackLine
            /\ (encodeRes = "marshal error" /\ ~encErr) => FallbackCount = 1
            /\ (encodeRes = "write error") => FallbackCount = 0
            /\ \A i \in 1..Len(WrittenMsgs) : WrittenMsgs[i] # msg
            /\ sent <= Len(WrittenMsgs))
    /\ [](~EncodeFailed => FallbackCount = 0)
    /\ [][EncodeFailed => body' = body]_vars

\* A serialization failure after one written message left one fallback line.
C5_Witness ==
    /\ encodeRes = "marshal error"
    /\ FallbackCount = 1
    /\ Len(WrittenMsgs) = 1
    /\ Len(yielded) >= 2
    /\ pc = "done"

\* C6: when parseRequest fails the handler has returned with status 422,
\* never having called Query or Filter nor sent the streaming headers.
C6_ParseErrorIs422 ==
    (parsed /\ parseRequest(req).err) =>
        /\ pc = "done"
        /\ outcome = "ParseError"
        /\ status = StatusUnprocessableEntity
        /\ queryCalls = 0
        /\ filterCalls = 0
        /\ headers \cap StreamingHeaders = {}
        /\ ~hdrFlushed
        /\ ctx = "none"

\* A GET with a non-numeric limit was answered with 422.
C6_Witness ==
    /\ req.Method = "GET"
    /\ parseRequest(req).err
    /\ status = StatusUnprocessableEntity
    /\ pc = "done"

\* C7: nothing of the response is sent before Requestor.Query returns, and
\* when it returns an error the handler has returned with status 500 and the
\* error body only: no streaming header, no flush, no message line.
C7_QueryErrorIs500 ==
    /\ (queryRes = "none" /\ pc \in {"query"}) => (status = 0 /\ body = <<>> /\ headers = {})
    /\ (queryRes = "error") =>
           /\ pc = "done"
           /\ outcome = "QueryError"
           /\ status = StatusInternalServerError
           /\ body = <<ErrorLine(StatusInternalServerError)>>
           /\ headers \cap StreamingHeaders = {}
           /\ ~hdrFlushed
           /\ filterCalls = 0
           /\ yielded = <<>>

\* Requestor.Query failed and the client was answered with 500.
C7_Witness ==
    /\ queryRes = "error"
    /\ queryCalls = 1
    /\ status = StatusInternalServerError
    /\ pc = "done"

\* C8: a response writer without CloseNotifier or without Flusher is answered
\* with 404 at once: the request is not parsed and Query is not called.
C8_UnsupportedIs404 ==
    (~(hasCN /\ hasFlusher) /\ pc # "start") =>
        /\ pc = "done"
        /\ outcome = "Unsupported"
        /\ status = StatusNotFound
        /\ ~parsed
        /\ queryCalls = 0

\* A writer that can notify but cannot flush was answered with 404.
C8_Witness ==
    /\ hasCN
    /\ ~hasFlusher
    /\ status = StatusNotFound
    /\ pc = "done"

\* C9: the messages were received in the order of the stream, and the written
\* message lines are the accepted messages of a prefix of the received ones,
\* in that order.
C9_WrittenInStreamOrder ==
    /\ yielded = SubSeq(stream, 1, Len(yielded))
    /\ \E p \in 0..Len(yielded) : WrittenMsgs = AcceptedIn(SubSeq(yielded, 1, p))

\* Two messages were written around a rejected one.
C9_Witness ==
    /\ Len(yielded) = 3
    /\ yielded[2] \notin accept
    /\ WrittenMsgs = <<yielded[1], yielded[3]>>

\* C10: status 200 and the streaming headers are sent, and flushed, only
\* after Query succeeded and before the first message is taken from the
\* stream; from then on the status stays 200, also when Encode fails.
C10_HeadersBeforeFirstMessage ==
    /\ [](status = StatusOK =>
            (queryRes \in {"channel", "nil"} /\ hdrFlushed /\ StreamingHeaders \subseteq headers))
    /\ [](hdrFlushed => status = StatusOK)
    /\ []((Len(yielded) > 0 \/ pc = "select") => (status = StatusOK /\ hdrFlushed))
    /\ [](EncodeFailed => status = StatusOK)
    /\ [][status = StatusOK => status' = StatusOK]_vars

\* A serialization fault after the headers left the status at 200.
C10_Witness ==
    /\ status = StatusOK
    /\ hdrFlushed
    /\ outcome = "Faulted"
    /\ FallbackCount = 1

\* The request sets no limit (limit <= 0) and Query returned a channel.
Unlimited ==
    /\ queryRes = "channel"
    /\ logRequest.Limit <= 0

\* C11: with limit <= 0 the sent-count stays at zero and never ends the
\* stream: the handler returns only on the end of the stream, on the client's
\* disconnect or on a failed Encode, and until then every message the stream
\* yielded and the filter accepted is written; at the end of the stream these
\* are all the accepted messages of the stream.
C11_UnlimitedWritesAll ==
    Unlimited =>
        /\ sent = 0
        /\ outcome \in {"none", "Completed", "Disconnected", "Faulted"}
        /\ (pc = "select" \/ outcome \in {"Completed", "Disconnected"}) =>
               WrittenMsgs = AcceptedIn(yielded)
        /\ (outcome = "Completed") => WrittenMsgs = AcceptedIn(stream)

\* A stream of three accepted messages was written whole under limit 0 or below.
C11_Witness ==
    /\ Unlimited
    /\ logRequest.Limit < 0
    /\ outcome = "Completed"
    /\ Len(WrittenMsgs) = MaxMsgs

\* The producer is blocked in a send: the channel has no room for its next message.
ProducerBlocked ==
    /\ prodPc = "running"
    /\ prodSent < Len(stream)
    /\ Len(chanBuf) >= chanCap

\* C12: a producer blocked in a send is always released, by the handler
\* receiving or by the cancellation of the context, and once the handler has
\* returned a producer that is still running stops.
C12_ProducerReleased ==
    /\ ProducerBlocked ~> ~ProducerBlocked
    /\ (pc = "done" /\ prodPc = "running") ~> (prodPc = "stopped")

\* The handler returned on its limit while the producer was blocked in a send.
C12_Witness ==
    /\ pc = "done"
    /\ outcome = "LimitReached"
    /\ ProducerBlocked

\* The last occurrence of a key in the query string of the request, "" when
\* the key does not occur.
LastOccurrence(k) ==
    LET vs == req.Query[k]
    IN IF vs = <<>> THEN "" ELSE vs[Len(vs)]

Numeric == {"-1", "0", "1", "2", "3"}
LimitMalformed == LastOccurrence("limit") \notin (Numeric \cup {""})
SinceMalformed == LastOccurrence("since") \notin (ValidTimes \cup {""})
ParsedGet == parsed /\ req.Method = "GET"

\* C13: for a GET request every field parseRequest fills is filled from the
\* last occurrence of its key, and only the last occurrence of limit and of
\* since decides whether the parse fails.
C13_LastOccurrenceWins ==
    ParsedGet =>
        /\ logRequest.Name = LastOccurrence("name")
        /\ logRequest.Instance = LastOccurrence("instance")
        /\ (outcome = "ParseError") <=> (LimitMalformed \/ SinceMalformed)
        /\ ~LimitMalformed =>
              /\ logRequest.Limit = IF LastOccurrence("limit") = "2" THEN 2 ELSE 0
              /\ logRequest.Follow = (LastOccurrence("follow") = "true")
              /\ logRequest.Invert = (LastOccurrence("invert") = "true")
        /\ (~LimitMalformed /\ ~SinceMalformed) =>
              /\ logRequest.Since = IF LastOccurrence("since") = "" THEN Nil
                                    ELSE LastOccurrence("since")
              /\ logRequest.Pattern = IF req.Query["pattern"] = <<>> THEN Nil
                                      ELSE LastOccurrence("pattern")

\* name=a&name=b&limit=x&limit=2 parsed to name b and limit 2.
C13_Witness ==
    /\ ParsedGet
    /\ req.Query["name"] = <<"a", "b">>
    /\ req.Query["limit"] = <<"x", "2">>
    /\ logRequest.Name = "b"
    /\ logRequest.Limit = 2
    /\ outcome # "ParseError"

\* C14 as stated: for every GET request Pattern is set exactly when the
\* pattern key occurs.
C14_PatternSetIffPresent ==
    ParsedGet => ((logRequest.Pattern # Nil) <=> (req.Query["pattern"] # <<>>))

\* C14 amended: for a GET request that parses without error Pattern is set
\* exactly when the pattern key occurs, to its last value, so that an empty
\* pattern (set, "") differs from an absent one (unset); when limit or since
\* is malformed the parse returns before the pattern and Pattern stays unset.
C14_PatternSetIffPresentAndParsed ==
    ParsedGet =>
        /\ (outcome # "ParseError") =>
              /\ (logRequest.Pattern # Nil) <=> (req.Query["pattern"] # <<>>)
              /\ (req.Query["pattern"] # <<>>) =>
                     logRequest.Pattern = LastOccurrence("pattern")
        /\ (outcome = "ParseError") => logRequest.Pattern = Nil

\* pattern= parsed to a set, empty Pattern.
C14_Witness ==
    /\ ParsedGet
    /\ req.Query["pattern"] = <<"">>
    /\ logRequest.Pattern = ""
    /\ logRequest.Pattern # Nil
    /\ outcome # "ParseError"

\* C15: a GET request whose limit is not a number fails to parse, and the
\* query returned with the error holds the name and the instance and the zero
\* value in every other field.
C15_MalformedLimit ==
    (ParsedGet /\ LimitMalformed) =>
        /\ outcome = "ParseError"
        /\ logRequest = [ZeroRequest EXCEPT !.Name = LastOccurrence("name"),
                                            !.Instance = LastOccurrence("instance")]

\* The full query string with limit=x failed with name and instance set.
C15_Witness ==
    /\ ParsedGet
    /\ req.Query = [FullQuery EXCEPT !["limit"] = <<"x">>]
    /\ outcome = "ParseError"
    /\ logRequest.Name = "fn"
    /\ logRequest.Instance = "i1"
    /\ ~logRequest.Follow
    /\ logRequest.Pattern = Nil

\* C16: a request that is neither GET nor POST parses to the zero Request
\* without error whatever its query string and body hold, and the handler goes
\* on to Requestor.Query with it.
C16_OtherMethodDefaultQuery ==
    (parsed /\ req.Method \notin {"GET", "POST"}) =>
        /\ logRequest = ZeroRequest
        /\ outcome # "ParseError"
        /\ status # StatusUnprocessableEntity
        /\ (pc = "query" /\ queryCalls = 0) \/ queryCalls = 1

\* A PUT with limit=x and a body reached Requestor.Query with the zero Request.
C16_Witness ==
    /\ req.Method = "PUT"
    /\ req.Query = [FullQuery EXCEPT !["limit"] = <<"x">>]
    /\ req.Body.valid
    /\ queryCalls = 1
    /\ logRequest = ZeroRequest

\* The handler is in its streaming loop.
Streaming == pc \in {"select", "filter", "encode", "flush", "limit"}
\* The receive of the select reports the end of the stream.
StreamEnded == chanClosed /\ chanBuf = <<>>

\* C17 as stated: once the producer closed the stream, the handler waiting in
\* the select returns at its next step, writing nothing further.
C17_ClosedStreamReturnsAtOnce ==
    [][(pc = "select" /\ chanClosed /\ pc' # pc) => pc' = "done"]_vars

\* C17 amended: a closed channel still yields the messages it buffers, which
\* the handler filters and writes; once the channel is closed and drained the
\* handler waiting in the select returns at its next step without writing,
\* as Completed unless the disconnect case is ready and taken.  Under fair
\* scheduling the handler returns whenever the stream is closed or the client
\* has disconnected, and it never goes on after the sent-count reached the limit.
C17_HandlerTerminates ==
    /\ [][(pc = "select" /\ StreamEnded /\ pc' # pc) =>
             /\ pc' = "done"
             /\ body' = body
             /\ outcome' \in {"Completed", "Disconnected"}
             /\ ~closeNotified => outcome' = "Completed"]_vars
    /\ [](logRequest.Limit > 0 /\ sent >= logRequest.Limit => pc = "done")
    /\ (Streaming /\ chanClosed) ~> (pc = "done")
    /\ (Streaming /\ closeNotified) ~> (pc = "done")

\* The handler wrote a message and returned on the end of the stream.
C17_Witness ==
    /\ pc = "done"
    /\ outcome = "Completed"
    /\ chanClosed
    /\ ~closeNotified
    /\ Len(WrittenMsgs) >= 1

\* C18: Requestor.Query is called at most once, the handler has an outcome
\* exactly when it has returned, and after its return it takes no further
\* step: no query, no filter call, no receive, no write, no status change.
C18_OutcomesAreTerminal ==
    /\ [](queryCalls <= 1)
    /\ []((outcome # "none") <=> (pc = "done"))
    /\ [][pc = "done" =>
             /\ pc' = "done"
             /\ outcome' = outcome
             /\ queryCalls' = queryCalls
             /\ filterCalls' = filterCalls
             /\ yielded' = yielded
             /\ body' = body
             /\ status' = status
             /\ sent' = sent]_vars

\* After a failed query the producer-less handler stays returned.
C18_Witness ==
    /\ pc = "done"
    /\ outcome = "QueryError"
    /\ queryCalls = 1
    /\ closeNotified

\* C19: while streaming, every written message line is flushed before the
\* limit check and before the next select: the body is flushed whole at the
\* select, the filter, the Encode and the limit check and at every return but
\* the fault, and only the line just written awaits its flush.
C19_FlushAfterEveryMessage ==
    (status = StatusOK) =>
        /\ pc \in {"select", "filter", "encode", "limit"} => flushedLen = Len(body)
        /\ outcome \in {"Completed", "Disconnected", "LimitReached"} => flushedLen = Len(body)
        /\ pc = "flush" => (Len(body) = flushedLen + 1 /\ IsMsgLine(body[Len(body)]))
        /\ Len(WrittenMsgs) <= flushedLen + 1

\* The second message line has been flushed when the limit is checked.
C19_Witness ==
    /\ pc = "limit"
    /\ Len(WrittenMsgs) = 2
    /\ flushedLen = 2

\* C20: with limit > 0 the sent-count is the number of message lines written
\* (of those written and flushed while the line just written awaits its flush
\* and its count), it never exceeds the limit, and no more than limit message
\* lines are written, beside at most one fallback line.
C20_SentCountsWrittenLines ==
    (logRequest.Limit > 0) =>
        /\ sent = Len(WrittenMsgs) - (IF pc \in {"flush", "limit"} THEN 1 ELSE 0)
        /\ sent <= logRequest.Limit
        /\ Len(WrittenMsgs) <= logRequest.Limit
        /\ FallbackCount <= 1
        /\ Len(body) <= logRequest.Limit + 1

\* A fault after the first of two allowed messages: one counted, one fallback line.
C20_Witness ==
    /\ logRequest.Limit = 2
    /\ sent = 1
    /\ Len(WrittenMsgs) = 1
    /\ FallbackCount = 1
    /\ closeNotified
    /\ outcome = "Faulted"

====
